---- MODULE Spec2Model ----
(***************************************************************************)
(* Client/daemon bootstrap and exit handoff of lf (main.go, and the exit   *)
(* sequence of run() as given in AUTOCD_INTEGRATION_PLAN.md).              *)
(*                                                                         *)
(* Processes: NumSessions foreground sessions running the default case of  *)
(* main(), the detached daemon each of them may spawn (daemon s is the     *)
(* child of session s), and daemon 0, the daemon of an earlier run.        *)
(* They share only the endpoint: the socket file (unix) or the port (tcp). *)
(*                                                                         *)
(* Command-line inputs are fixed by flag.Parse; the model draws each one   *)
(* at the step that first reads it and keeps it from then on.              *)
(*                                                                         *)
(* Spec is the bootstrap: main() from the mode switch up to the call of    *)
(* run(). ExitSpec is the exit sequence of run(), started from the states  *)
(* in which sessions have entered run(); it reads none of the endpoint.    *)
(*                                                                         *)
(* OptsSpec is the export of the options (exportOpts over getOptsMap and   *)
(* fieldToString) followed by a reader of the environment; LevelSpec is    *)
(* the LF_LEVEL counter along a chain of nested sessions. Strings are      *)
(* sequences of one-character strings, so that formatting, joining and     *)
(* splitting are computed character by character.                          *)
(***************************************************************************)
EXTENDS Integers, FiniteSets, Sequences

\* Number of concurrent foreground sessions.
NumSessions == 2
\* Largest number of positional arguments a session is given.
MaxArgs == 2
\* Deepest final location of a session, counted in directories below the root.
MaxDepth == 1
\* Longest list of integers in the options.
MaxList == 3
\* Longest string that is an element of a list of strings in the options.
MaxStr == 2
\* Longest list of strings in the options.
MaxElems == 1
\* Longest inherited LF_LEVEL drawn from the alphabet (boundary values are added).
MaxLevelLen == 2
\* Number of sessions in a chain of nested sessions.
MaxChain == 3

Sessions == 1..NumSessions
Daemons == 0..NumSessions

VARIABLES
    gSocketProt,   \* "unix" | "tcp"
    sockFile,      \* {} when gSocketPath names no file, {d} for the socket file daemon d bound
    daemon,        \* daemon process state: none | starting | listening | dead | exited
    pc,            \* position of each session in main()
    gSingleMode,   \* -single
    gAutocd,       \* -autocd
    nargs,         \* flag.NArg()
    cwdOK,         \* whether the session's os.Getwd() succeeded (TRUE until it is called)
    statRes,       \* what os.Stat(gSocketPath) found: none | absent | exists
    dialRes,       \* how net.Dial ended: none | ok | fail
    removed,       \* the session has executed os.Remove(gSocketPath)
    spawnRes,      \* how cmd.Start() ended: none | ok | fail
    execRes,       \* how the process replacement ended: none | ok | fail
    exitCode,      \* exit status, meaningful when pc = "exited"
    exitSite,      \* how the process ended: none | cwd | nargs | fallback | remote | return
    diag,          \* diagnostics the session has written (log and stderr)
    remoteCmd,     \* the process was started with a non-empty -remote command
    sent,          \* number of times the process has sent its remote command
    gLastDirPath,  \* -last-dir-path is set (non-empty)
    persist,       \* writeLastDir: none | written | failed
    finalPath,     \* app.nav.currDir().path at exit, as its depth below the root
    finalKind,     \* what os.Stat finds there: dir | file | missing
    target,        \* the targetPath handed to the replacement, as a depth
    envLevel,      \* the package variable envLevel of the current session
    level,         \* LF_LEVEL in the environment (the empty string when unset)
    depth,         \* number of sessions started so far in the chain of nested sessions
    inherited,     \* LF_LEVEL as the current session found it at its start
    rootLevel,     \* LF_LEVEL as the first session of the chain found it
    stage,         \* position in the export: idle | started | exported | opts | ranging | read
    gOpts,         \* the options: field name -> value
    optsMap,       \* the map getOptsMap() returned to exportOpts
    pending,       \* keys of optsMap the range loop of exportOpts has not visited yet
    env,           \* the lf_ entries of the environment: name -> string
    readBack       \* the options a reader rebuilt from env: field name -> value

remv == <<remoteCmd, sent>>
exitv == <<gLastDirPath, persist, finalPath, finalKind, target>>
levelv == <<envLevel, level, depth, inherited, rootLevel>>
optsv == <<gOpts, optsMap, pending, env, readBack>>
expv == <<levelv, optsv, stage>>

vars == <<gSocketProt, sockFile, daemon, pc, gSingleMode, gAutocd, nargs, cwdOK,
          statRes, dialRes, removed, spawnRes, execRes, exitCode, exitSite, diag,
          remv, exitv, expv>>

shared == <<gSocketProt, sockFile, daemon>>
flags == <<gSingleMode, gAutocd, nargs, cwdOK>>
probe == <<statRes, dialRes, removed, spawnRes>>
ending == <<execRes, exitCode, exitSite>>

Listening == {d \in Daemons : daemon[d] = "listening"}

\* A connect to the endpoint reaches a listener: through the socket file for
\* unix (the file must be the one a listening daemon bound), by port for tcp.
Reachable ==
    IF gSocketProt = "unix" THEN sockFile \cap Listening # {} ELSE Listening # {}

\* The classification of the endpoint that checkServer's conditions compute.
Probe ==
    IF gSocketProt = "unix"
    THEN IF sockFile = {} THEN "Dead"
         ELSE IF Reachable THEN "Alive" ELSE "StaleArtifact"
    ELSE IF Reachable THEN "Alive" ELSE "Dead"

\* The parts of the state a specification does not use stay as they are here.
ExitIdle ==
    /\ gLastDirPath = [s \in Sessions |-> FALSE]
    /\ persist = [s \in Sessions |-> "none"]
    /\ finalPath = [s \in Sessions |-> 0]
    /\ finalKind = [s \in Sessions |-> "dir"]
    /\ target = [s \in Sessions |-> 0]

LevelIdle ==
    /\ envLevel = <<>>
    /\ level = <<>>
    /\ depth = 0
    /\ inherited = <<>>
    /\ rootLevel = <<>>

OptsIdle ==
    /\ gOpts = [f \in {} |-> 0]
    /\ optsMap = [n \in {} |-> <<>>]
    /\ pending = {}
    /\ env = [n \in {} |-> <<>>]
    /\ readBack = [f \in {} |-> 0]

ExportIdle ==
    /\ LevelIdle
    /\ OptsIdle
    /\ stage = "idle"

Init ==
    /\ gSocketProt \in {"unix", "tcp"}
    /\ \E d0 \in {"none", "dead", "listening"} :
          /\ gSocketProt = "tcp" => d0 # "dead"
          /\ daemon = [d \in Daemons |-> IF d = 0 THEN d0 ELSE "none"]
          /\ sockFile = IF gSocketProt = "unix" /\ d0 # "none" THEN {0} ELSE {}
    /\ pc = [s \in Sessions |-> "start"]
    /\ gSingleMode = [s \in Sessions |-> FALSE]
    /\ gAutocd = [s \in Sessions |-> FALSE]
    /\ nargs = [s \in Sessions |-> 0]
    /\ cwdOK = [s \in Sessions |-> TRUE]
    /\ statRes = [s \in Sessions |-> "none"]
    /\ dialRes = [s \in Sessions |-> "none"]
    /\ removed = [s \in Sessions |-> FALSE]
    /\ spawnRes = [s \in Sessions |-> "none"]
    /\ execRes = [s \in Sessions |-> "none"]
    /\ exitCode = [s \in Sessions |-> 0]
    /\ exitSite = [s \in Sessions |-> "none"]
    /\ diag = [s \in Sessions |-> {}]
    /\ remoteCmd = [s \in Sessions |-> FALSE]
    /\ sent = [s \in Sessions |-> 0]
    /\ ExitIdle
    /\ ExportIdle

----------------------------------------------------------------------------
StartSkipsCheckServer(s) ==
    /\ pc[s] = "start"
    /\ \E single \in BOOLEAN :
          /\ gSingleMode' = [gSingleMode EXCEPT ![s] = single]
          /\ pc' = [pc EXCEPT ![s] = "args"]
    /\ UNCHANGED <<shared, gAutocd, nargs, cwdOK, probe, ending, diag, remv, exitv, expv>>

StartSingleProbes(s) ==
    /\ pc[s] = "start"
    /\ \E single \in BOOLEAN :
          /\ gSingleMode' = [gSingleMode EXCEPT ![s] = single]
          /\ pc' = [pc EXCEPT ![s] = IF gSocketProt = "unix" THEN "stat" ELSE "dial"]
    /\ UNCHANGED <<shared, gAutocd, nargs, cwdOK, probe, ending, diag, remv, exitv, expv>>

\* main(), default case: gSingleMode = *singleMode; if !gSingleMode { checkServer() }
Start(s) ==
    /\ pc[s] = "start"
    /\ \E single \in BOOLEAN :
          /\ gSingleMode' = [gSingleMode EXCEPT ![s] = single]
          /\ pc' = [pc EXCEPT ![s] =
                       IF single THEN "args"
                       ELSE IF gSocketProt = "unix" THEN "stat" ELSE "dial"]
    /\ UNCHANGED <<shared, gAutocd, nargs, cwdOK, probe, ending, diag, remv, exitv, expv>>

\* checkServer, unix: os.Stat(gSocketPath); os.IsNotExist(err) launches at once.
Stat(s) ==
    /\ pc[s] = "stat"
    /\ statRes' = [statRes EXCEPT ![s] = IF sockFile = {} THEN "absent" ELSE "exists"]
    /\ pc' = [pc EXCEPT ![s] = IF sockFile = {} THEN "spawn" ELSE "dial"]
    /\ UNCHANGED <<shared, flags, dialRes, removed, spawnRes, ending, diag, remv, exitv, expv>>

AfterDialLaunchOnSuccess(ok) ==
    IF ok THEN "spawn" ELSE IF gSocketProt = "unix" THEN "remove" ELSE "spawn"

AfterDialRemoveOnSuccess(ok) ==
    IF ok THEN "remove" ELSE IF gSocketProt = "unix" THEN "remove" ELSE "spawn"

\* checkServer: where the session goes once net.Dial has returned.
AfterDial(ok) ==
    IF ok THEN "args" ELSE IF gSocketProt = "unix" THEN "remove" ELSE "spawn"

\* checkServer: net.Dial(gSocketProt, gSocketPath) answered at once: accepted
\* by a reachable listener, refused when there is none.
Dial(s) ==
    /\ pc[s] = "dial"
    /\ dialRes' = [dialRes EXCEPT ![s] = IF Reachable THEN "ok" ELSE "fail"]
    /\ pc' = [pc EXCEPT ![s] = AfterDial(Reachable)]
    /\ UNCHANGED <<shared, flags, statRes, removed, spawnRes, ending, diag, remv, exitv, expv>>

\* net.Dial against a tcp peer that neither accepts nor refuses: the call is
\* made without a timeout (no Dialer.Timeout, no DialTimeout), so it pends.
\* (A unix connect is answered at once: queued by the kernel or refused.)
DialBlock(s) ==
    /\ pc[s] = "dial"
    /\ gSocketProt = "tcp"
    /\ Reachable
    /\ pc' = [pc EXCEPT ![s] = "blocked"]
    /\ UNCHANGED <<shared, flags, probe, ending, diag, remv, exitv, expv>>

\* The pending net.Dial returns only when the peer or the operating system
\* ends it: the peer accepts at last, or the connect is given up.
DialUnblock(s) ==
    /\ pc[s] = "blocked"
    /\ \E ok \in BOOLEAN :
          /\ ok => Reachable
          /\ dialRes' = [dialRes EXCEPT ![s] = IF ok THEN "ok" ELSE "fail"]
          /\ pc' = [pc EXCEPT ![s] = AfterDial(ok)]
    /\ UNCHANGED <<shared, flags, statRes, removed, spawnRes, ending, diag, remv, exitv, expv>>

SockAfterRemoveKept == sockFile

\* The socket path after os.Remove(gSocketPath).
SockAfterRemove == {}

\* checkServer, unix, connect failed: os.Remove(gSocketPath).
Remove(s) ==
    /\ pc[s] = "remove"
    /\ sockFile' = SockAfterRemove
    /\ removed' = [removed EXCEPT ![s] = TRUE]
    /\ pc' = [pc EXCEPT ![s] = "spawn"]
    /\ UNCHANGED <<gSocketProt, daemon, flags, statRes, dialRes, spawnRes, ending, diag, remv, exitv, expv>>

StartServerFatal(s) ==
    /\ pc[s] = "spawn"
    /\ \E ok \in BOOLEAN :
          /\ spawnRes' = [spawnRes EXCEPT ![s] = IF ok THEN "ok" ELSE "fail"]
          /\ daemon' = [daemon EXCEPT ![s] = IF ok THEN "starting" ELSE @]
          /\ diag' = [diag EXCEPT ![s] = IF ok THEN @ ELSE @ \cup {"starting server"}]
          /\ pc' = [pc EXCEPT ![s] = IF ok THEN "args" ELSE "exited"]
          /\ exitCode' = [exitCode EXCEPT ![s] = IF ok THEN @ ELSE 1]
          /\ exitSite' = [exitSite EXCEPT ![s] = IF ok THEN @ ELSE "spawn"]
    /\ UNCHANGED <<gSocketProt, sockFile, flags, statRes, dialRes, removed, execRes, remv, exitv, expv>>

\* startServer: cmd.Start() of the detached "-server" child; an error is
\* logged and nothing else. checkServer then returns to main.
StartServer(s) ==
    /\ pc[s] = "spawn"
    /\ \E ok \in BOOLEAN :
          /\ spawnRes' = [spawnRes EXCEPT ![s] = IF ok THEN "ok" ELSE "fail"]
          /\ daemon' = [daemon EXCEPT ![s] = IF ok THEN "starting" ELSE @]
          /\ diag' = [diag EXCEPT ![s] = IF ok THEN @ ELSE @ \cup {"starting server"}]
    /\ pc' = [pc EXCEPT ![s] = "args"]
    /\ UNCHANGED <<gSocketProt, sockFile, flags, statRes, dialRes, removed, ending, remv, exitv, expv>>

ArgsOutcomeOneIsTooMany(n, readable) ==
    IF n = 0 THEN (IF readable THEN "export" ELSE "cwd")
    ELSE "nargs"

ArgsOutcomeNoCwdCheck(n, readable) ==
    IF n = 0 THEN "export"
    ELSE IF n = 1 THEN "export"
    ELSE "nargs"

\* main(): switch flag.NArg(). "export" goes on to exportEnvVars; "cwd" and
\* "nargs" are the two os.Exit(2) sites.
ArgsOutcome(n, readable) ==
    IF n = 0 THEN (IF readable THEN "export" ELSE "cwd")
    ELSE IF n = 1 THEN "export"
    ELSE "nargs"

\* main(): gClientID = os.Getpid(); switch flag.NArg() { ... }. Case 0 calls
\* os.Getwd(); the other cases do not.
Args(s) ==
    /\ pc[s] = "args"
    /\ \E n \in 0..MaxArgs, readable \in BOOLEAN :
          LET out == ArgsOutcome(n, readable) IN
          /\ n # 0 => readable
          /\ nargs' = [nargs EXCEPT ![s] = n]
          /\ cwdOK' = [cwdOK EXCEPT ![s] = readable]
          /\ pc' = [pc EXCEPT ![s] = IF out = "export" THEN "export" ELSE "exited"]
          /\ exitCode' = [exitCode EXCEPT ![s] = IF out = "export" THEN @ ELSE 2]
          /\ exitSite' = [exitSite EXCEPT ![s] = IF out = "export" THEN @ ELSE out]
          /\ diag' = [diag EXCEPT ![s] =
                         IF out = "cwd" THEN @ \cup {"getting current directory"}
                         ELSE IF out = "nargs"
                              THEN @ \cup {"only single file or directory is allowed"}
                              ELSE @]
    /\ UNCHANGED <<shared, gSingleMode, gAutocd, probe, execRes, remv, exitv, expv>>

\* exportEnvVars: dir, err := os.Getwd(); a failure is reported on stderr and
\* the export goes on (OLDPWD is set to the empty string). With no positional
\* argument main has already read the directory.
ExportEnvVars(s) ==
    /\ pc[s] = "export"
    /\ \E readable \in BOOLEAN :
          /\ nargs[s] = 0 => readable = cwdOK[s]
          /\ cwdOK' = [cwdOK EXCEPT ![s] = readable]
          /\ diag' = [diag EXCEPT ![s] =
                         IF readable THEN @ ELSE @ \cup {"getting current directory"}]
    /\ pc' = [pc EXCEPT ![s] = "run"]
    /\ UNCHANGED <<shared, gSingleMode, gAutocd, nargs, probe, ending, remv, exitv, expv>>

\* run(): the session runs until the user quits; app.ui.screen.Fini().
Run(s) ==
    /\ pc[s] = "run"
    /\ pc' = [pc EXCEPT ![s] = "deciding"]
    /\ UNCHANGED <<shared, flags, probe, ending, diag, remv, exitv, expv>>

DecidingIgnoresToggle(s) ==
    /\ pc[s] = "deciding"
    /\ \E autocd \in BOOLEAN :
          /\ gAutocd' = [gAutocd EXCEPT ![s] = autocd]
          /\ pc' = [pc EXCEPT ![s] = "handoff"]
    /\ UNCHANGED <<shared, gSingleMode, nargs, cwdOK, probe, ending, diag, remv, exitv, expv>>

\* run(), exit sequence: if gAutocd { ... } else the existing exit logic.
Deciding(s) ==
    /\ pc[s] = "deciding"
    /\ \E autocd \in BOOLEAN :
          /\ gAutocd' = [gAutocd EXCEPT ![s] = autocd]
          /\ pc' = [pc EXCEPT ![s] = IF autocd THEN "handoff" ELSE "normalexit"]
    /\ UNCHANGED <<shared, gSingleMode, nargs, cwdOK, probe, ending, diag, remv, exitv, expv>>

\* filepath.Dir on a clean absolute path: the containing directory; the root
\* is its own.
PathDir(p) == IF p = 0 THEN 0 ELSE p - 1

TargetPathAsIs(p, kind) == p

\* run(): targetPath := app.nav.currDir().path; if os.Stat succeeds and the
\* path is not a directory, targetPath = filepath.Dir(targetPath).
TargetPath(p, kind) == IF kind = "file" THEN PathDir(p) ELSE p

HandoffReturns(s) ==
    /\ pc[s] = "handoff"
    /\ \E p \in 0..MaxDepth, kind \in {"dir", "file", "missing"}, ok \in BOOLEAN :
          /\ p = 0 => kind = "dir"
          /\ finalPath' = [finalPath EXCEPT ![s] = p]
          /\ finalKind' = [finalKind EXCEPT ![s] = kind]
          /\ target' = [target EXCEPT ![s] = TargetPath(p, kind)]
          /\ execRes' = [execRes EXCEPT ![s] = IF ok THEN "ok" ELSE "fail"]
          /\ pc' = [pc EXCEPT ![s] = IF ok THEN "normalexit" ELSE "fallback"]
    /\ UNCHANGED <<shared, flags, probe, exitCode, exitSite, diag, remv,
                   gLastDirPath, persist, expv>>

\* run(), if gAutocd: the target is resolved and handed to
\* autocd.ExitWithDirectoryOrFallback(targetPath, fallback): on success the
\* process image is replaced and nothing of the session runs again; on
\* failure the fallback function is called. The root is a directory.
Handoff(s) ==
    /\ pc[s] = "handoff"
    /\ \E p \in 0..MaxDepth, kind \in {"dir", "file", "missing"}, ok \in BOOLEAN :
          /\ p = 0 => kind = "dir"
          /\ finalPath' = [finalPath EXCEPT ![s] = p]
          /\ finalKind' = [finalKind EXCEPT ![s] = kind]
          /\ target' = [target EXCEPT ![s] = TargetPath(p, kind)]
          /\ execRes' = [execRes EXCEPT ![s] = IF ok THEN "ok" ELSE "fail"]
          /\ pc' = [pc EXCEPT ![s] = IF ok THEN "replaced" ELSE "fallback"]
    /\ UNCHANGED <<shared, flags, probe, exitCode, exitSite, diag, remv,
                   gLastDirPath, persist, expv>>

FallbackFatal(s) ==
    /\ pc[s] = "fallback"
    /\ pc' = [pc EXCEPT ![s] = "exited"]
    /\ exitCode' = [exitCode EXCEPT ![s] = 1]
    /\ exitSite' = [exitSite EXCEPT ![s] = "fallback"]
    /\ UNCHANGED <<shared, flags, probe, execRes, diag, remv, exitv, expv>>

\* The fallback function: os.Exit(0).
Fallback(s) ==
    /\ pc[s] = "fallback"
    /\ pc' = [pc EXCEPT ![s] = "exited"]
    /\ exitCode' = [exitCode EXCEPT ![s] = 0]
    /\ exitSite' = [exitSite EXCEPT ![s] = "fallback"]
    /\ UNCHANGED <<shared, flags, probe, execRes, diag, remv, exitv, expv>>

\* The exit logic for non-autocd usage: if gLastDirPath != "" the last
\* directory is written (a failure is logged); run() returns and main() returns.
NormalExit(s) ==
    /\ pc[s] = "normalexit"
    /\ \E ok \in BOOLEAN :
          /\ persist' = [persist EXCEPT ![s] =
                            IF ~gLastDirPath[s] THEN @
                            ELSE IF ok THEN "written" ELSE "failed"]
          /\ diag' = [diag EXCEPT ![s] =
                         IF gLastDirPath[s] /\ ~ok THEN @ \cup {"writing last dir"} ELSE @]
    /\ pc' = [pc EXCEPT ![s] = "exited"]
    /\ exitCode' = [exitCode EXCEPT ![s] = 0]
    /\ exitSite' = [exitSite EXCEPT ![s] = "return"]
    /\ UNCHANGED <<shared, flags, probe, execRes, remv,
                   gLastDirPath, finalPath, finalKind, target, expv>>

\* The "-server" child: serve() binds the endpoint. A unix bind fails while
\* the socket path names a file, a tcp bind while another daemon holds the
\* port; a daemon whose bind fails exits quietly.
DaemonBind(d) ==
    /\ daemon[d] = "starting"
    /\ LET free == IF gSocketProt = "unix" THEN sockFile = {} ELSE Listening = {} IN
          /\ daemon' = [daemon EXCEPT ![d] = IF free THEN "listening" ELSE "exited"]
          /\ sockFile' = IF free /\ gSocketProt = "unix" THEN {d} ELSE sockFile
    /\ UNCHANGED <<gSocketProt, pc, flags, probe, ending, diag, remv, exitv, expv>>

\* main(), mode switch: the process was started with a non-empty -remote
\* command and takes the remote case, not the default one.
RemoteStart(s) ==
    /\ pc[s] = "start"
    /\ remoteCmd' = [remoteCmd EXCEPT ![s] = TRUE]
    /\ pc' = [pc EXCEPT ![s] = "remote"]
    /\ UNCHANGED <<shared, flags, probe, ending, diag, sent, exitv, expv>>

\* remote(cmd): one connection to the endpoint carries the command; it cannot
\* be established when nothing listens there.
RemoteResult == IF Reachable THEN "ok" ELSE "error"

RemoteSendRecovers(s) ==
    /\ pc[s] = "remote"
    /\ sent' = [sent EXCEPT ![s] = @ + 1]
    /\ pc' = [pc EXCEPT ![s] =
                 IF RemoteResult = "ok" THEN "exited"
                 ELSE IF gSocketProt = "unix" THEN "stat" ELSE "dial"]
    /\ exitSite' = [exitSite EXCEPT ![s] = IF RemoteResult = "ok" THEN "return" ELSE @]
    /\ UNCHANGED <<shared, flags, probe, execRes, exitCode, diag, remoteCmd, exitv, expv>>

\* main(), remote case: if err := remote(*remoteCmd); err != nil
\* { log.Fatalf("remote command: %s", err) }; otherwise main returns.
RemoteSend(s) ==
    /\ pc[s] = "remote"
    /\ sent' = [sent EXCEPT ![s] = @ + 1]
    /\ pc' = [pc EXCEPT ![s] = "exited"]
    /\ exitCode' = [exitCode EXCEPT ![s] = IF RemoteResult = "ok" THEN 0 ELSE 1]
    /\ exitSite' = [exitSite EXCEPT ![s] = IF RemoteResult = "ok" THEN "return" ELSE "remote"]
    /\ diag' = [diag EXCEPT ![s] =
                   IF RemoteResult = "ok" THEN @ ELSE @ \cup {"remote command"}]
    /\ UNCHANGED <<shared, flags, probe, execRes, remoteCmd, exitv, expv>>

\* The steps a process takes by itself during the bootstrap.
SessionStep(s) ==
    \/ Start(s) \/ Stat(s) \/ Dial(s) \/ Remove(s) \/ StartServer(s)
    \/ Args(s) \/ ExportEnvVars(s)
    \/ RemoteStart(s) \/ RemoteSend(s)

Next ==
    \/ \E s \in Sessions : SessionStep(s)
    \/ \E s \in Sessions : DialBlock(s)
    \/ \E s \in Sessions : DialUnblock(s)
    \/ \E d \in Daemons : DaemonBind(d)

Spec == Init /\ [][Next]_vars

\* Every process that can take a step of its own is scheduled. The answer of
\* an unresponsive peer (DialBlock, DialUnblock) is not a step the program
\* can force.
FairSpec ==
    /\ Spec
    /\ \A s \in Sessions : WF_vars(SessionStep(s))
    /\ \A d \in Daemons : WF_vars(DaemonBind(d))

----------------------------------------------------------------------------
\* Sessions that have entered run(): the argument switch let them through
\* (at most one positional argument) and exportEnvVars has run. The exit
\* sequence reads none of what the bootstrap left behind; the sessions here
\* are the ones started with -single in a readable directory.
ExitInit ==
    /\ gSocketProt \in {"unix", "tcp"}
    /\ daemon = [d \in Daemons |-> "none"]
    /\ sockFile = {}
    /\ pc = [s \in Sessions |-> "run"]
    /\ gSingleMode = [s \in Sessions |-> TRUE]
    /\ gAutocd = [s \in Sessions |-> FALSE]
    /\ nargs \in [Sessions -> 0..1]
    /\ cwdOK = [s \in Sessions |-> TRUE]
    /\ statRes = [s \in Sessions |-> "none"]
    /\ dialRes = [s \in Sessions |-> "none"]
    /\ removed = [s \in Sessions |-> FALSE]
    /\ spawnRes = [s \in Sessions |-> "none"]
    /\ execRes = [s \in Sessions |-> "none"]
    /\ exitCode = [s \in Sessions |-> 0]
    /\ exitSite = [s \in Sessions |-> "none"]
    /\ diag = [s \in Sessions |-> {}]
    /\ remoteCmd = [s \in Sessions |-> FALSE]
    /\ sent = [s \in Sessions |-> 0]
    /\ gLastDirPath \in [Sessions -> BOOLEAN]
    /\ persist = [s \in Sessions |-> "none"]
    /\ finalPath = [s \in Sessions |-> 0]
    /\ finalKind = [s \in Sessions |-> "dir"]
    /\ target = [s \in Sessions |-> 0]
    /\ ExportIdle

\* The steps of a session's exit sequence.
ExitStep(s) ==
    \/ Run(s) \/ Deciding(s) \/ Handoff(s) \/ Fallback(s) \/ NormalExit(s)

ExitNext == \E s \in Sessions : ExitStep(s)

ExitSpec == ExitInit /\ [][ExitNext]_vars

----------------------------------------------------------------------------
\* Export of the options and of LF_LEVEL.

\* The state of the bootstrap and of the exit sequence, which the export
\* specifications leave alone: one session has called exportOpts and
\* exportEnvVars on its way to run().
BootIdle ==
    /\ gSocketProt = "unix"
    /\ daemon = [d \in Daemons |-> "none"]
    /\ sockFile = {}
    /\ pc = [s \in Sessions |-> "export"]
    /\ gSingleMode = [s \in Sessions |-> TRUE]
    /\ gAutocd = [s \in Sessions |-> FALSE]
    /\ nargs = [s \in Sessions |-> 0]
    /\ cwdOK = [s \in Sessions |-> TRUE]
    /\ statRes = [s \in Sessions |-> "none"]
    /\ dialRes = [s \in Sessions |-> "none"]
    /\ removed = [s \in Sessions |-> FALSE]
    /\ spawnRes = [s \in Sessions |-> "none"]
    /\ execRes = [s \in Sessions |-> "none"]
    /\ exitCode = [s \in Sessions |-> 0]
    /\ exitSite = [s \in Sessions |-> "none"]
    /\ diag = [s \in Sessions |-> {}]
    /\ remoteCmd = [s \in Sessions |-> FALSE]
    /\ sent = [s \in Sessions |-> 0]
    /\ ExitIdle

bootv == <<gSocketProt, sockFile, daemon, pc, gSingleMode, gAutocd, nargs, cwdOK,
           statRes, dialRes, removed, spawnRes, execRes, exitCode, exitSite, diag,
           remv, exitv>>

DigitChars == <<"0", "1", "2", "3", "4", "5", "6", "7", "8", "9">>
IsDigit(c) == \E i \in 1..Len(DigitChars) : DigitChars[i] = c
DigitOf(c) == (CHOOSE i \in 1..Len(DigitChars) : DigitChars[i] = c) - 1

\* strconv.Itoa on the values the options hold.
RECURSIVE NatDigits(_)
NatDigits(n) ==
    IF n < 10 THEN <<DigitChars[n + 1]>>
    ELSE NatDigits(n \div 10) \o <<DigitChars[(n % 10) + 1]>>

Itoa(n) == IF n < 0 THEN <<"-">> \o NatDigits(0 - n) ELSE NatDigits(n)

\* strconv.FormatBool
FormatBool(b) == IF b THEN <<"t", "r", "u", "e">> ELSE <<"f", "a", "l", "s", "e">>

\* reflect.Value of a field: its kind and what it holds.
IntV(n) == [kind |-> "int", val |-> n]
BoolV(b) == [kind |-> "bool", val |-> b]
StringV(str) == [kind |-> "string", val |-> str]
SliceV(elems) == [kind |-> "slice", val |-> elems]
MapV(m) == [kind |-> "map", val |-> m]

RECURSIVE FieldToString(_), SliceValue(_, _)

SliceValueOverwrites(field, n) ==
    IF n = 0 THEN <<>> ELSE FieldToString(field.val[n])

\* fieldToString, case reflect.Slice: value after the first n rounds of the loop.
SliceValue(field, n) ==
    IF n = 0 THEN <<>>
    ELSE IF n = 1 THEN FieldToString(field.val[1])
    ELSE SliceValue(field, n - 1) \o <<":">> \o FieldToString(field.val[n])

\* fieldToString
FieldToString(field) ==
    CASE field.kind = "int" -> Itoa(field.val)
      [] field.kind = "bool" -> FormatBool(field.val)
      [] field.kind = "slice" -> SliceValue(field, Len(field.val))
      [] OTHER -> field.val

\* The fields of gOpts, in the order of the struct, and the type of each.
OptFields == <<"tabstop", "hidden", "ratios", "hiddenfiles",
               "nkeys", "vkeys", "cmdkeys", "cmds", "user">>
FieldSet == {OptFields[i] : i \in 1..Len(OptFields)}
FieldType ==
    [f \in FieldSet |->
        CASE f = "tabstop" -> "int"
          [] f = "hidden" -> "bool"
          [] f = "ratios" -> "ints"
          [] f = "hiddenfiles" -> "strings"
          [] OTHER -> "map"]

\* name := "lf_" + t.Field(i).Name, and name+"_"+key for a user option:
\* a name is kept as the tuple of the parts that are concatenated.
Name(f) == <<"lf_", f>>
UserName(key) == <<"lf_", "user", "_", key>>

SkippedNames == {Name("nkeys"), Name("vkeys"), Name("cmdkeys"), Name("cmds")}

\* The fields that getOptsMap hands to fieldToString.
PlainFields == {f \in FieldSet : Name(f) \notin SkippedNames /\ Name(f) # Name("user")}

\* getOptsMap, with gOpts as its argument.
GetOptsMap(opts) ==
    LET user == opts["user"].val
        names == {Name(f) : f \in PlainFields} \cup {UserName(k) : k \in DOMAIN user}
    IN  [n \in names |->
            IF \E f \in PlainFields : Name(f) = n
            THEN FieldToString(opts[CHOOSE f \in PlainFields : Name(f) = n])
            ELSE user[CHOOSE k \in DOMAIN user : UserName(k) = n]]

\* os.Setenv on the lf_ part of the environment.
Setenv(e, key, value) ==
    [n \in DOMAIN e \cup {key} |-> IF n = key THEN value ELSE e[n]]

\* Strings of up to n characters over an alphabet.
RECURSIVE StringsUpTo(_, _)
StringsUpTo(alphabet, n) ==
    IF n = 0 THEN {<<>>}
    ELSE LET shorter == StringsUpTo(alphabet, n - 1)
         IN  shorter \cup {str \o <<c>> : str \in shorter, c \in alphabet}

\* The values the options are drawn from.
Tabstops == {-1, 0, 8, 10}
Ratios == {1, 2, 3}
IntLists == UNION {[1..n -> {IntV(r) : r \in Ratios}] : n \in 0..MaxList}
Elements == StringsUpTo({"a", ":"}, MaxStr) \ {<<>>}
StringLists == UNION {[1..n -> {StringV(e) : e \in Elements}] : n \in 0..MaxElems}
UserMaps == {[k \in {} |-> <<>>], [k \in {"k"} |-> <<"v">>]}

\* Each entry is computed from its own field alone, so the two lists are
\* varied one at a time.
OptsInit ==
    /\ BootIdle
    /\ LevelIdle
    /\ \E tabstop \in Tabstops, hidden \in BOOLEAN, ratios \in IntLists,
          hiddenfiles \in StringLists, user \in UserMaps :
          /\ ratios = <<>> \/ hiddenfiles = <<>>
          /\ gOpts = [f \in FieldSet |->
                        CASE f = "tabstop" -> IntV(tabstop)
                          [] f = "hidden" -> BoolV(hidden)
                          [] f = "ratios" -> SliceV(ratios)
                          [] f = "hiddenfiles" -> SliceV(hiddenfiles)
                          [] f = "user" -> MapV(user)
                          [] OTHER -> MapV([k \in {} |-> <<>>])]
    /\ optsMap = [n \in {} |-> <<>>]
    /\ pending = {}
    /\ env = [n \in {} |-> <<>>]
    /\ readBack = [f \in {} |-> 0]
    /\ stage = "opts"

\* exportOpts: the call of getOptsMap() that the range loop runs over.
ExportOptsBegin ==
    /\ stage = "opts"
    /\ optsMap' = GetOptsMap(gOpts)
    /\ pending' = DOMAIN GetOptsMap(gOpts)
    /\ stage' = "ranging"
    /\ UNCHANGED <<bootv, levelv, gOpts, env, readBack>>

\* exportOpts: one round of the loop. The order in which a map is ranged
\* over is not fixed, so any key not yet visited may be the next.
ExportOptsSet ==
    /\ stage = "ranging"
    /\ \E key \in pending :
          /\ env' = Setenv(env, key, optsMap[key])
          /\ pending' = pending \ {key}
    /\ UNCHANGED <<bootv, levelv, gOpts, optsMap, readBack, stage>>

\* strings.Split(str, ":")
RECURSIVE Split(_)
Split(str) ==
    IF \A i \in 1..Len(str) : str[i] # ":" THEN <<str>>
    ELSE LET i == CHOOSE j \in 1..Len(str) :
                      str[j] = ":" /\ \A k \in 1..(j - 1) : str[k] # ":"
         IN  <<SubSeq(str, 1, i - 1)>> \o Split(SubSeq(str, i + 1, Len(str)))

\* A reader takes the empty string for the empty list.
ReadList(str) == IF str = <<>> THEN <<>> ELSE Split(str)

RECURSIVE ParseNat(_)
ParseNat(str) ==
    IF str = <<>> THEN 0
    ELSE 10 * ParseNat(SubSeq(str, 1, Len(str) - 1)) + DigitOf(str[Len(str)])

ParseInt(str) ==
    IF str # <<>> /\ str[1] = "-" THEN 0 - ParseNat(Tail(str)) ELSE ParseNat(str)

\* What a reader that knows the type of a field makes of its entry.
ReadAs(type, str) ==
    CASE type = "int" -> IntV(ParseInt(str))
      [] type = "bool" -> BoolV(str = <<"t", "r", "u", "e">>)
      [] type = "ints" ->
            SliceV([i \in 1..Len(ReadList(str)) |-> IntV(ParseInt(ReadList(str)[i]))])
      [] type = "strings" ->
            SliceV([i \in 1..Len(ReadList(str)) |-> StringV(ReadList(str)[i])])

\* A sub-command of the session reads the entries back after exportOpts
\* has returned.
ReadBack ==
    /\ stage = "ranging"
    /\ pending = {}
    /\ readBack' = [f \in {g \in PlainFields : Name(g) \in DOMAIN env} |->
                       ReadAs(FieldType[f], env[Name(f)])]
    /\ stage' = "read"
    /\ UNCHANGED <<bootv, levelv, gOpts, optsMap, pending, env>>

OptsNext == ExportOptsBegin \/ ExportOptsSet \/ ReadBack

OptsSpec == OptsInit /\ [][OptsNext]_vars

\* Go's int is 64 bits wide. A value of that width is kept as its sign and
\* the decimal digits of its magnitude, most significant first.
MaxInt64 == <<9, 2, 2, 3, 3, 7, 2, 0, 3, 6, 8, 5, 4, 7, 7, 5, 8, 0, 7>>
MinInt64 == <<9, 2, 2, 3, 3, 7, 2, 0, 3, 6, 8, 5, 4, 7, 7, 5, 8, 0, 8>>

RECURSIVE Norm(_)
Norm(mag) == IF Len(mag) > 1 /\ mag[1] = 0 THEN Norm(Tail(mag)) ELSE mag

MagLess(a, b) ==
    \/ Len(a) < Len(b)
    \/ /\ Len(a) = Len(b)
       /\ \E i \in 1..Len(a) : a[i] < b[i] /\ \A j \in 1..(i - 1) : a[j] = b[j]

RECURSIVE MagInc(_)
MagInc(mag) ==
    IF mag = <<>> THEN <<1>>
    ELSE IF mag[Len(mag)] < 9
         THEN SubSeq(mag, 1, Len(mag) - 1) \o <<mag[Len(mag)] + 1>>
         ELSE MagInc(SubSeq(mag, 1, Len(mag) - 1)) \o <<0>>

\* For a magnitude of at least one.
RECURSIVE MagDec(_)
MagDec(mag) ==
    IF mag[Len(mag)] > 0
    THEN SubSeq(mag, 1, Len(mag) - 1) \o <<mag[Len(mag)] - 1>>
    ELSE MagDec(SubSeq(mag, 1, Len(mag) - 1)) \o <<9>>

\* strconv.Atoi: an optional sign and decimal digits. A syntax error gives
\* 0, a value out of range gives the nearest value of the width; both
\* come with an error.
Atoi(str) ==
    LET signed == str # <<>> /\ str[1] \in {"+", "-"}
        neg == str # <<>> /\ str[1] = "-"
        body == IF signed THEN Tail(str) ELSE str
        mag == Norm([i \in 1..Len(body) |-> DigitOf(body[i])])
    IN  IF body = <<>> \/ \E i \in 1..Len(body) : ~IsDigit(body[i])
        THEN [neg |-> FALSE, mag |-> <<0>>, err |-> TRUE]
        ELSE IF ~neg /\ MagLess(MaxInt64, mag)
        THEN [neg |-> FALSE, mag |-> MaxInt64, err |-> TRUE]
        ELSE IF neg /\ MagLess(MinInt64, mag)
        THEN [neg |-> TRUE, mag |-> MinInt64, err |-> TRUE]
        ELSE [neg |-> neg /\ mag # <<0>>, mag |-> mag, err |-> FALSE]

\* level++ on an int: the largest value wraps around to the smallest.
Increment(v) ==
    IF ~v.neg
    THEN IF v.mag = MaxInt64
         THEN [neg |-> TRUE, mag |-> MinInt64]
         ELSE [neg |-> FALSE, mag |-> MagInc(v.mag)]
    ELSE [neg |-> Norm(MagDec(v.mag)) # <<0>>, mag |-> Norm(MagDec(v.mag))]

\* strconv.Itoa on a value of the full width.
ItoaInt64(v) ==
    (IF v.neg THEN <<"-">> ELSE <<>>) \o [i \in 1..Len(v.mag) |-> DigitChars[v.mag[i] + 1]]

\* The values of LF_LEVEL a chain of sessions may start from: unset (the
\* empty string), short strings, and the values at the ends of the width.
LevelChars == {"0", "1", "9", "-", "+", "x"}
Int64Text(mag) == [i \in 1..Len(mag) |-> DigitChars[mag[i] + 1]]
InheritedLevels ==
    StringsUpTo(LevelChars, MaxLevelLen)
        \cup {Int64Text(MaxInt64), Int64Text(MagDec(MaxInt64)),
              <<"-">> \o Int64Text(MinInt64), Int64Text(MaxInt64 \o <<0>>)}

LevelInit ==
    /\ BootIdle
    /\ OptsIdle
    /\ level \in InheritedLevels
    /\ rootLevel = level
    /\ inherited = <<>>
    /\ envLevel = <<>>
    /\ depth = 0
    /\ stage = "idle"

\* A session starts, the first of the chain or one nested in the session
\* that has exported: envLevel = os.Getenv("LF_LEVEL"), and init() turns
\* the empty string into "0".
SessionInit ==
    /\ stage \in {"idle", "exported"}
    /\ depth < MaxChain
    /\ inherited' = level
    /\ envLevel' = IF level = <<>> THEN <<"0">> ELSE level
    /\ depth' = depth + 1
    /\ stage' = "started"
    /\ UNCHANGED <<bootv, optsv, level, rootLevel>>

\* exportEnvVars: level, err := strconv.Atoi(envLevel); the error is only
\* logged; level++; os.Setenv("LF_LEVEL", strconv.Itoa(level)).
ExportLevel ==
    /\ stage = "started"
    /\ level' = ItoaInt64(Increment(Atoi(envLevel)))
    /\ stage' = "exported"
    /\ UNCHANGED <<bootv, optsv, envLevel, depth, inherited, rootLevel>>

LevelNext == SessionInit \/ ExportLevel

LevelSpec == LevelInit /\ [][LevelNext]_vars

----------------------------------------------------------------------------
\* Positions inside checkServer, and positions after it has returned.
InCheckServer == {"stat", "dial", "blocked", "remove", "spawn"}
Returned == {"args", "export", "run", "exited"}

\* C1: at most one daemon is bound and listening for the endpoint at any
\* time, whatever the number of sessions that found it dead and launched.
C1_AtMostOneDaemonBound == Cardinality(Listening) <= 1

\* C2: a session's os.Remove(gSocketPath) never deletes the socket file of a
\* daemon that is listening behind it.
C2_RemoveOnlyStale ==
    [][\A s \in Sessions :
          (pc[s] = "remove" /\ pc'[s] # "remove") => sockFile \cap Listening = {}]_vars

\* C3: checkServer launches a daemon exactly when the socket file was absent
\* or the connect failed, and never after a connect that succeeded.
C3_LaunchIffNotAlive ==
    \A s \in Sessions :
        /\ dialRes[s] = "ok" =>
               spawnRes[s] = "none" /\ daemon[s] = "none" /\ pc[s] \notin {"remove", "spawn"}
        /\ pc[s] \in Returned =>
               (spawnRes[s] # "none" <=> (statRes[s] = "absent" \/ dialRes[s] = "fail"))

\* One session launched after a failed connect, another returned without a
\* launch after a connect that succeeded.
C3_Witness ==
    \E s, u \in Sessions :
        /\ pc[s] \in Returned /\ dialRes[s] = "fail" /\ spawnRes[s] = "ok"
        /\ pc[u] \in Returned /\ dialRes[u] = "ok" /\ spawnRes[u] = "none"

C5_ProbeFrame ==
    [][\A s \in Sessions :
          /\ (pc[s] \in InCheckServer /\ pc'[s] # pc[s] /\ sockFile' # sockFile) =>
                 /\ pc[s] = "remove"
                 /\ gSocketProt = "unix"
                 /\ statRes[s] = "exists"
                 /\ dialRes[s] = "fail"
          /\ removed'[s] =>
                 gSocketProt = "unix" /\ statRes'[s] = "exists" /\ dialRes'[s] = "fail"]_vars

\* A unix session returned from checkServer after a successful connect with
\* the socket file still in place, and another found no file and removed
\* nothing.
C5_Witness ==
    /\ gSocketProt = "unix"
    /\ \E s \in Sessions :
          pc[s] \in Returned /\ dialRes[s] = "ok" /\ ~removed[s] /\ sockFile # {}
    /\ \E u \in Sessions :
          pc[u] \in Returned /\ statRes[u] = "absent" /\ ~removed[u]

\* C6: every session eventually gets past checkServer, also when the peer
\* neither accepts nor refuses the connection.
C6_ProbeTerminates ==
    \A s \in Sessions : <>(pc[s] \notin ({"start"} \cup InCheckServer))

\* C7: a failed spawn is logged and nothing more: checkServer returns, the
\* session goes on through the argument switch and the export into run(),
\* and it exits with status 2 only for the reasons any session does.
C7_SpawnFailureNonFatal ==
    \A s \in Sessions :
        spawnRes[s] = "fail" =>
            /\ "starting server" \in diag[s]
            /\ pc[s] \in Returned
            /\ pc[s] \in {"args", "export"} => ENABLED SessionStep(s)
            /\ pc[s] = "exited" =>
                   /\ exitCode[s] = 2
                   /\ exitSite[s] \in {"cwd", "nargs"}
                   /\ nargs[s] > 1 \/ (nargs[s] = 0 /\ ~cwdOK[s])

\* A session whose spawn failed has entered run().
C7_Witness ==
    \E s \in Sessions : spawnRes[s] = "fail" /\ pc[s] = "run"

\* C8: with more than one positional argument the session exits with status
\* 2 at the argument switch and reaches neither exportEnvVars nor run();
\* with zero or one argument that exit is not taken.
C8_TooManyArgsExit2 ==
    \A s \in Sessions :
        /\ nargs[s] > 1 =>
               pc[s] = "exited" /\ exitCode[s] = 2 /\ exitSite[s] = "nargs"
        /\ exitSite[s] = "nargs" => nargs[s] > 1
        /\ pc[s] \in {"export", "run"} => nargs[s] <= 1

\* One session was given two arguments and exited with 2; another was given
\* one and entered run().
C8_Witness ==
    \E s, u \in Sessions :
        /\ nargs[s] = 2 /\ pc[s] = "exited" /\ exitCode[s] = 2
        /\ nargs[u] = 1 /\ pc[u] = "run"

\* C9 as claimed: a session that cannot read its working directory exits
\* with status 2 and does not enter run(), with zero arguments and with one.
C9_UnreadableCwdFatal ==
    \A s \in Sessions :
        (~cwdOK[s] /\ nargs[s] <= 1) => (pc[s] = "exited" /\ exitCode[s] = 2)

\* C9 as amended: the unreadable directory is fatal (status 2, before
\* exportEnvVars and run()) when no positional argument is given; with one
\* argument it is only reported by exportEnvVars and the session enters run().
C9_UnreadableCwdFatalWithoutArgs ==
    \A s \in Sessions :
        /\ ~cwdOK[s] =>
               /\ "getting current directory" \in diag[s]
               /\ nargs[s] = 0 =>
                      pc[s] = "exited" /\ exitCode[s] = 2 /\ exitSite[s] = "cwd"
               /\ nargs[s] = 1 => pc[s] = "run" /\ exitSite[s] = "none"
        /\ exitSite[s] = "cwd" => nargs[s] = 0 /\ ~cwdOK[s]

\* A session without arguments exited with 2 on the unreadable directory.
C9_Witness ==
    \E s \in Sessions :
        ~cwdOK[s] /\ nargs[s] = 0 /\ pc[s] = "exited" /\ exitCode[s] = 2

\* C10: with -autocd set and the process replacement failing, the session
\* is in the fallback, which can always run, or has exited with status 0.
C10_FallbackExitsZero ==
    \A s \in Sessions :
        execRes[s] = "fail" =>
            /\ gAutocd[s]
            /\ pc[s] \in {"fallback", "exited"}
            /\ pc[s] = "fallback" => ENABLED Fallback(s)
            /\ pc[s] = "exited" => exitCode[s] = 0 /\ exitSite[s] = "fallback"

\* The replacement failed and the session has exited through the fallback.
C10_Witness ==
    \E s \in Sessions :
        gAutocd[s] /\ execRes[s] = "fail" /\ pc[s] = "exited" /\ exitCode[s] = 0

\* C11: a session that leaves through the fallback of a failed replacement
\* has done the persistence a normal exit with the same flags does: with
\* -last-dir-path set, the last directory was written (or the write tried).
C11_FallbackPersists ==
    \A s \in Sessions :
        (exitSite[s] = "fallback" /\ gLastDirPath[s]) => persist[s] # "none"

\* C12: once the replacement has succeeded the session takes no further
\* step: nothing is persisted, no fallback runs, no exit status is reported.
C12_HandoffTerminal ==
    \A s \in Sessions :
        execRes[s] = "ok" =>
            /\ pc[s] = "replaced"
            /\ persist[s] = "none"
            /\ exitSite[s] = "none"
            /\ ~ENABLED ExitStep(s)

\* A session with -last-dir-path set has been replaced.
C12_Witness ==
    \E s \in Sessions : pc[s] = "replaced" /\ execRes[s] = "ok" /\ gLastDirPath[s]

\* What os.Stat finds at the target handed to the replacement: the final
\* location itself, or the directory that contains it.
TargetKind(s) == IF target[s] = finalPath[s] THEN finalKind[s] ELSE "dir"

\* C13: the target handed to the replacement is the final location when
\* that is a directory, its parent when it is an existing regular file, and
\* never a regular file.
C13_TargetIsDirectory ==
    \A s \in Sessions :
        execRes[s] # "none" =>
            /\ finalKind[s] = "dir" => target[s] = finalPath[s]
            /\ finalKind[s] = "file" => target[s] = finalPath[s] - 1
            /\ TargetKind(s) # "file"

\* The final location named a regular file and its parent was handed over.
C13_Witness ==
    \E s \in Sessions :
        /\ execRes[s] = "ok" /\ finalKind[s] = "file"
        /\ finalPath[s] = 1 /\ target[s] = 0

\* C14: the replacement is attempted only with -autocd set. Without it the
\* session goes from deciding to the normal exit and the replacement is
\* never invoked; with it the normal exit's persistence is not taken unless
\* through the fallback.
C14_ToggleDecides ==
    \A s \in Sessions :
        /\ ~gAutocd[s] =>
               /\ execRes[s] = "none"
               /\ pc[s] \in {"run", "deciding", "normalexit", "exited"}
               /\ pc[s] = "exited" => exitSite[s] = "return"
        /\ gAutocd[s] =>
               /\ pc[s] \in {"handoff", "replaced", "fallback", "exited"}
               /\ pc[s] = "exited" => exitSite[s] = "fallback"
               /\ persist[s] # "none" => execRes[s] = "fail"

\* One session left by the normal exit and wrote its last directory without
\* the replacement being invoked; another, with -autocd, was replaced.
C14_Witness ==
    \E s, u \in Sessions :
        /\ ~gAutocd[s] /\ pc[s] = "exited" /\ persist[s] = "written" /\ execRes[s] = "none"
        /\ gAutocd[u] /\ pc[u] = "replaced"

\* C18: a process started with a -remote command never runs checkServer,
\* never launches a daemon, never deletes the socket file, sends its command
\* at most once, and ends with an error when the send fails.
C18_RemoteNoRecovery ==
    \A s \in Sessions :
        remoteCmd[s] =>
            /\ statRes[s] = "none" /\ dialRes[s] = "none"
            /\ ~removed[s]
            /\ spawnRes[s] = "none" /\ daemon[s] = "none"
            /\ sent[s] <= 1
            /\ pc[s] \in {"remote", "exited"}
            /\ pc[s] = "exited" =>
                   /\ sent[s] = 1
                   /\ exitCode[s] = (IF "remote command" \in diag[s] THEN 1 ELSE 0)
            /\ "remote command" \in diag[s] => pc[s] = "exited"

\* A remote command failed against a stale socket file, which is still there.
C18_Witness ==
    \E s \in Sessions :
        /\ remoteCmd[s] /\ pc[s] = "exited" /\ exitCode[s] = 1 /\ sent[s] = 1
        /\ Probe = "StaleArtifact"

\* C19: a session not started with -single that exits with status 2 has
\* run checkServer to its end before the arguments were looked at.
C19_ProbeBeforeValidation ==
    \A s \in Sessions :
        (pc[s] = "exited" /\ exitCode[s] = 2 /\ ~gSingleMode[s]) =>
            /\ IF gSocketProt = "unix" THEN statRes[s] # "none" ELSE dialRes[s] # "none"
            /\ (statRes[s] = "absent" \/ dialRes[s] = "fail") => spawnRes[s] # "none"

\* A session exited with status 2 after it deleted the stale socket file and
\* spawned a daemon, which is now listening.
C19_Witness ==
    \E s \in Sessions :
        /\ pc[s] = "exited" /\ exitCode[s] = 2
        /\ removed[s] /\ spawnRes[s] = "ok" /\ daemon[s] = "listening"

\* C20: a session started with -single does not touch the endpoint (no
\* probe, no delete, no launch) and goes through the same argument switch,
\* export and run() as any session.
C20_SingleNoEndpoint ==
    \A s \in Sessions :
        gSingleMode[s] =>
            /\ statRes[s] = "none" /\ dialRes[s] = "none"
            /\ ~removed[s]
            /\ spawnRes[s] = "none" /\ daemon[s] = "none"
            /\ pc[s] \in Returned
            /\ pc[s] \in {"args", "export"} => ENABLED SessionStep(s)
            /\ pc[s] = "exited" =>
                   /\ exitCode[s] = 2
                   /\ nargs[s] > 1 \/ (nargs[s] = 0 /\ ~cwdOK[s])

\* A -single session has entered run() while the stale socket file is
\* still in place.
C20_Witness ==
    \E s \in Sessions :
        gSingleMode[s] /\ pc[s] = "run" /\ Probe = "StaleArtifact"

\* C15: every exported scalar, boolean or list field reads back (lists
\* split on ":") as the value the options hold; a list that would not is
\* not exported at all.
C15_ExportReadBackRoundTrip ==
    stage = "read" =>
        \A f \in PlainFields :
            Name(f) \in DOMAIN env => readBack[f] = gOpts[f]

\* The decimal numerals of the integers the options are drawn from.
Numeral(n) ==
    CASE n = -1 -> <<"-", "1">>
      [] n = 0 -> <<"0">>
      [] n = 1 -> <<"1">>
      [] n = 2 -> <<"2">>
      [] n = 3 -> <<"3">>
      [] n = 8 -> <<"8">>
      [] n = 10 -> <<"1", "0">>

\* The elements of a list of strings, each followed by ":" but for the last.
RECURSIVE JoinColon(_)
JoinColon(strs) ==
    IF strs = <<>> THEN <<>>
    ELSE IF Len(strs) = 1 THEN strs[1]
    ELSE strs[1] \o <<":">> \o JoinColon(Tail(strs))

\* The options of the scenario: tabstop 8, hidden false, ratios [1, 2, 3].
ScenarioOpts ==
    [f \in FieldSet |->
        CASE f = "tabstop" -> IntV(8)
          [] f = "hidden" -> BoolV(FALSE)
          [] f = "ratios" -> SliceV(<<IntV(1), IntV(2), IntV(3)>>)
          [] f = "hiddenfiles" -> SliceV(<<>>)
          [] OTHER -> MapV([k \in {} |-> <<>>])]

\* C16: when exportOpts has returned, whatever the order of its writes,
\* the environment holds exactly one entry lf_<field> for each integer,
\* boolean and list field (and one per user option, none for the key and
\* command maps): the integer in decimal, the boolean as true or false, the
\* list as its elements in order joined by ":"; the scenario exports as
\* lf_tabstop=8, lf_hidden=false, lf_ratios=1:2:3.
C16_OneEntryPerField ==
    /\ GetOptsMap(ScenarioOpts)[Name("tabstop")] = <<"8">>
    /\ GetOptsMap(ScenarioOpts)[Name("hidden")] = <<"f", "a", "l", "s", "e">>
    /\ GetOptsMap(ScenarioOpts)[Name("ratios")] = <<"1", ":", "2", ":", "3">>
    /\ (stage \in {"ranging", "read"} /\ pending = {}) =>
          /\ DOMAIN env =
                {Name("tabstop"), Name("hidden"), Name("ratios"), Name("hiddenfiles")}
                    \cup {UserName(k) : k \in DOMAIN gOpts["user"].val}
          /\ env[Name("tabstop")] = Numeral(gOpts["tabstop"].val)
          /\ env[Name("hidden")] =
                (IF gOpts["hidden"].val THEN <<"t", "r", "u", "e">>
                                        ELSE <<"f", "a", "l", "s", "e">>)
          /\ env[Name("ratios")] =
                JoinColon([i \in 1..Len(gOpts["ratios"].val) |->
                              Numeral(gOpts["ratios"].val[i].val)])
          /\ env[Name("hiddenfiles")] =
                JoinColon([i \in 1..Len(gOpts["hiddenfiles"].val) |->
                              gOpts["hiddenfiles"].val[i].val])
          /\ \A k \in DOMAIN gOpts["user"].val :
                env[UserName(k)] = gOpts["user"].val[k]

\* exportOpts has returned for the options of the scenario with a user
\* option set.
C16_Witness ==
    /\ stage = "ranging" /\ pending = {}
    /\ gOpts["tabstop"] = IntV(8) /\ gOpts["hidden"] = BoolV(FALSE)
    /\ gOpts["ratios"] = SliceV(<<IntV(1), IntV(2), IntV(3)>>)
    /\ DOMAIN gOpts["user"].val # {}
    /\ env[Name("ratios")] = <<"1", ":", "2", ":", "3">>

\* The number a short LF_LEVEL stands for: an optional sign and digits,
\* anything else (unset included) counts as 0.
LevelValue(str) ==
    LET body == IF str # <<>> /\ str[1] \in {"+", "-"} THEN Tail(str) ELSE str
    IN  IF body = <<>> \/ \E i \in 1..Len(body) : ~IsDigit(body[i]) THEN 0
        ELSE IF str[1] = "-" THEN 0 - ParseNat(body) ELSE ParseNat(body)

\* Short enough to be one of the drawn strings or a successor of one.
ShortLevel(str) == Len(str) <= MaxLevelLen + 1

\* C17: a session that has exported left LF_LEVEL at the value it
\* inherited plus one (unset or non-numeric counting as 0): the numeral of
\* that sum for a short value, a value that is not negative for a long
\* non-negative one; and in a chain started without LF_LEVEL the k-th
\* session exports k.
C17_LevelIsInheritedPlusOne ==
    stage = "exported" =>
        /\ ShortLevel(inherited) => level = Itoa(LevelValue(inherited) + 1)
        /\ (~ShortLevel(inherited) /\ IsDigit(inherited[1])) => level[1] # "-"
        /\ rootLevel = <<>> => level = Itoa(depth)

====
